---- MODULE Spec2Model ----
(***************************************************************************)
(* Model of the DTLN noise-reduction service.                              *)
(*                                                                         *)
(*   src/services/noise_reduction.py  NoiseReductionService (singleton,    *)
(*                                    model loading, process_audio,        *)
(*                                    process_audio_data, observers)       *)
(*   src/services/dtln_model.py       DTLN_model (framing, separation      *)
(*                                    kernels, overlap-add)                *)
(*   src/api/routes.py                denoise_audio (caller of             *)
(*                                    process_audio, cleanup paths)        *)
(*                                                                         *)
(* Samples are fixed-point integers: the float 1.0 is the integer One.     *)
(* NaN and Inf are two reserved integers outside the finite range, and     *)
(* every arithmetic operator below propagates them as IEEE-754 does.       *)
(***************************************************************************)
EXTENDS Integers, Sequences, FiniteSets, TLC

\* ------------------------------------------------------------------ bounds
\* Threads that may call into the service at the same time.
NumThreads == 2
\* Constructor calls NoiseReductionService(...) made in one behaviour.
MaxCalls == 3
\* Inputs are up to this many hops longer than one block.
MaxExtraHops == 2
\* Channels of a multi-channel input.
MaxCh == 2

\* ------------------------------------------------------- program constants
blockLen == 512
block_shift == 128
SAMPLE_RATE == 16000

Threads == 1..NumThreads

\* ------------------------------------------------------------ float domain
RECURSIVE Fact(_)
Fact(n) == IF n <= 1 THEN 1 ELSE n * Fact(n - 1)

\* 1.0 in fixed point: a multiple of every channel count, so that the mean of
\* whole samples over the channels is exact.
One == Fact(MaxCh)

NaN == 0 - 999999
Inf == 0 - 888888
NonFinite == {NaN, Inf}

IsFinite(v) == v \notin NonFinite

\* IEEE addition on the values the model uses (Inf is +Inf).
FAdd(a, b) ==
    IF a = NaN \/ b = NaN THEN NaN
    ELSE IF a = Inf \/ b = Inf THEN Inf
    ELSE a + b

\* IEEE multiplication of a sample by a finite integer gain.
FScale(a, g) ==
    IF a = NaN THEN NaN
    ELSE IF a = Inf THEN (IF g = 0 THEN NaN ELSE Inf)
    ELSE a * g

\* IEEE division of a sample by a positive count.
FDivN(a, n) ==
    IF a \in NonFinite THEN a ELSE a \div n

\* ------------------------------------------------------------------ arrays
\* A numpy array is [isArray, ndim, data]: ndim 1 is a sequence of samples,
\* ndim 2 a sequence of rows, one row per sample holding one value per channel
\* (the layout soundfile returns).  isArray FALSE is any other Python object.
Array1(x) == [isArray |-> TRUE, ndim |-> 1, data |-> x]
Array2(rows) == [isArray |-> TRUE, ndim |-> 2, data |-> rows]
NotAnArray == [isArray |-> FALSE, ndim |-> 0, data |-> <<>>]

RECURSIVE RowSum(_, _)
RowSum(row, k) == IF k = 0 THEN 0 ELSE FAdd(RowSum(row, k - 1), row[k])

\* np.mean(audio, axis=1): the mean of each row over its channels.
MeanAxis1First(a) == Array1([i \in 1..Len(a.data) |-> a.data[i][1]])
MeanAxis1(a) ==
    Array1([i \in 1..Len(a.data) |->
              FDivN(RowSum(a.data[i], Len(a.data[i])), Len(a.data[i]))])

\* The block "if audio.ndim > 1: audio = np.mean(audio, axis=1)".
EnsureMono(a) == IF a.ndim > 1 THEN MeanAxis1(a) ELSE a

\* np.expand_dims(audio, axis=0) and np.squeeze on a batch of one.
ExpandDims(a) == <<a.data>>
Squeeze(batch) == batch[1]

\* np.clip(x, -1.0, 1.0) on one sample: NaN compares false with both limits
\* and passes through.
Clip1(v) ==
    IF v = NaN THEN NaN
    ELSE IF v = Inf THEN One
    ELSE IF v < -One THEN -One
    ELSE IF v > One THEN One ELSE v

Clip(x) == [i \in 1..Len(x) |-> Clip1(x[i])]

\* ------------------------------------------------------------- DTLN layers
\* tf.signal.frame(x, blockLen, block_shift), pad_end False: take a block
\* while a whole block remains, then advance by the shift.
RECURSIVE FrameFrom(_, _, _, _)
FrameFrom(x, start, L, H) ==
    IF start + L - 1 > Len(x) THEN <<>>
    ELSE <<SubSeq(x, start, start + L - 1)>> \o FrameFrom(x, start + H, L, H)

\* The pad_end=True variant: a block for every shift that starts inside x,
\* zero-padded at the end.
RECURSIVE FramePadFrom(_, _, _, _)
FramePadFrom(x, start, L, H) ==
    IF start > Len(x) THEN <<>>
    ELSE <<[i \in 1..L |-> IF start + i - 1 <= Len(x) THEN x[start + i - 1] ELSE 0]>>
         \o FramePadFrom(x, start + H, L, H)

FramePadEnd(x) == FramePadFrom(x, 1, blockLen, block_shift)
Frame(x) == FrameFrom(x, 1, blockLen, block_shift)

\* Contribution of blocks 1..k to output position p.
RECURSIVE CoverSum(_, _, _, _)
CoverSum(fr, p, k, H) ==
    IF k = 0 THEN 0
    ELSE LET off == p - (k - 1) * H
         IN  FAdd(CoverSum(fr, p, k - 1, H),
                  IF off >= 1 /\ off <= Len(fr[k]) THEN fr[k][off] ELSE 0)

\* tf.signal.overlap_and_add(x, frame_step): the blocks are summed into a
\* buffer of (frames + segments - 1) * frame_step samples, which is then cut to
\* frame_length + frame_step * (frames - 1).
OverlapAddWith(fr, L, H) ==
    LET n == Len(fr)
        segments == (L + H - 1) \div H
        full == [p \in 1..((n + segments - 1) * H) |-> CoverSum(fr, p, n, H)]
        output_length == L + H * (n - 1)
    IN  SubSeq(full, 1, output_length)

OverlapAdd(fr) == OverlapAddWith(fr, blockLen, block_shift)

\* The trained layers are opaque weights; the model keeps their data flow.
\* Feature of one block (the magnitude spectrum fed to the first kernel): a
\* non-finite sample anywhere in the block makes every bin NaN.
Feature(f) ==
    IF \E i \in 1..Len(f) : ~IsFinite(f[i]) THEN NaN
    ELSE ((f[1] + f[block_shift + 1] + f[Len(f)]) \div One) % 3

\* One time step of the stacked LSTMs of the two separation kernels: the new
\* hidden state from the previous one and the block's feature.
StateMod == 3
LSTMStep(h, x) ==
    IF h = NaN \/ x = NaN THEN NaN ELSE (h + x + 1) % StateMod

\* Mask, encoder and decoder applied to one block under hidden state h.
Decode(f, h) ==
    IF h = NaN THEN [i \in 1..Len(f) |-> NaN]
    ELSE [i \in 1..Len(f) |-> FScale(f[i], h)]

\* The whole network on one waveform, from hidden state h0: the decoded blocks.
RECURSIVE RunFrames(_, _, _)
RunFrames(fr, k, h0) ==
    IF k = 0 THEN [h |-> h0, out |-> <<>>]
    ELSE LET prev == RunFrames(fr, k - 1, h0)
             h == LSTMStep(prev.h, Feature(fr[k]))
         IN  [h |-> h, out |-> Append(prev.out, Decode(fr[k], h))]

\* model.predict on a batch of one waveform, run alone.
Predict(x) == OverlapAdd(RunFrames(Frame(x), Len(Frame(x)), 0).out)

\* ------------------------------------------------------------------- state
VARIABLES
    cls_instance,   \* NoiseReductionService._instance: 0 is None, else an object
    objs,           \* the attributes of every NoiseReductionService object
    nInst,          \* objects created so far
    nCalls,         \* constructor calls started so far
    loadCount,      \* times load_weights loaded a weights file
    initDone,       \* some constructor call has completed a load
    fs,             \* the file system: path -> file
    lstm,           \* hidden state of the recurrent layers, per slot
    th,             \* per thread: position and local variables of its call
    last            \* the call that returned or raised most recently

vars == <<cls_instance, objs, nInst, nCalls, loadCount, initDone, fs, lstm, th, last>>

\* self.model: id 0 is None, otherwise the serial number of the load that
\* built it; norm is the norm_stft flag it was built with.
NoneModel == [id |-> 0, norm |-> FALSE]

\* An object as super().__new__(cls) returns it: no attribute set yet.
FreshObj ==
    [has_initialized |-> FALSE, initialized |-> FALSE, has_fields |-> FALSE,
     model_path |-> "", sample_rate |-> 0, model |-> NoneModel, dtln |-> FALSE]

NoInfo == [status |-> "", model_path |-> "", sample_rate |-> 0]

\* --------------------------------------------------------------- files
AbsentFile == [kind |-> "absent", audio |-> NotAnArray, rate |-> 0]
WeightsFile == [kind |-> "weights", audio |-> NotAnArray, rate |-> 0]
\* A file whose weights do not fit the architecture build_DTLN_model builds.
BadWeightsFile == [kind |-> "badweights", audio |-> NotAnArray, rate |-> 0]
PartialFile == [kind |-> "partial", audio |-> NotAnArray, rate |-> 0]
AudioFile(a, r) == [kind |-> "audio", audio |-> a, rate |-> r]

ModelPaths == {"DTLN.h5", "DTLN_norm_.h5", "missing.h5", "corrupt.h5"}
AudioPaths == {"in.wav", "stereo.wav", "none.wav", "out.wav"}
Paths == ModelPaths \cup AudioPaths

\* os.path.exists(path)
Exists(path) == fs[path].kind # "absent"

\* '_norm_' in os.path.basename(self.model_path)
NormStft(path) == path = "DTLN_norm_.h5"

\* Arguments a caller passes to NoiseReductionService(model_path, sample_rate).
CtorArgs ==
    { <<"DTLN.h5", SAMPLE_RATE>>, <<"DTLN_norm_.h5", SAMPLE_RATE \div 2>>,
      <<"missing.h5", SAMPLE_RATE>>, <<"corrupt.h5", SAMPLE_RATE>> }

\* --------------------------------------------------------------- threads
\* A thread between calls holds only the handle the constructor returned to it.
IdleThread ==
    [pc |-> "idle", op |-> "none", via |-> "direct", ret |-> "none", handle |-> 0,
     this |-> 0, model_path |-> "", sample_rate |-> 0,
     late |-> FALSE, loads0 |-> 0,
     audio |-> NotAnArray, fed |-> <<>>, frames |-> <<>>, k |-> 0,
     dec |-> <<>>, ran |-> FALSE, out |-> <<>>,
     input_path |-> "", output_path |-> "", in_kind |-> "", before |-> AbsentFile]

\* What a finished call leaves to its caller: how it ended (ret), what it
\* returned, and the arguments and observations of the call.
NoCall ==
    [t |-> 0, op |-> "none", via |-> "direct", ret |-> "none", handle |-> 0,
     this |-> 0, late |-> FALSE, loads0 |-> 0, ready |-> FALSE, info |-> NoInfo,
     audio |-> NotAnArray, fed |-> <<>>, ran |-> FALSE, out |-> <<>>,
     input_path |-> "", output_path |-> "", in_kind |-> "", before |-> AbsentFile]

\* A thread starts call op.
Begin(t, op, via) ==
    [th[t] EXCEPT !.op = op, !.via = via, !.late = initDone, !.loads0 = loadCount]

Set(t, rec) == th' = [th EXCEPT ![t] = rec] /\ UNCHANGED last

\* The first step of a call: the caller has taken the previous result.
Start(t, rec) == th' = [th EXCEPT ![t] = rec] /\ last' = NoCall

Result(t, kind, rec) ==
    [t |-> t, op |-> rec.op, via |-> rec.via, ret |-> kind, handle |-> rec.handle,
     this |-> rec.this, late |-> rec.late, loads0 |-> rec.loads0, ready |-> FALSE, info |-> NoInfo,
     audio |-> rec.audio, fed |-> rec.fed, ran |-> rec.ran, out |-> rec.out,
     input_path |-> rec.input_path, output_path |-> rec.output_path,
     in_kind |-> rec.in_kind, before |-> rec.before]

\* The call of thread t returns or raises (kind): its locals are dropped.  A
\* call made by the route returns into denoise_audio.
Finish(t, kind, rec) ==
    /\ last' = Result(t, kind, rec)
    /\ th' = [th EXCEPT ![t] =
                IF rec.via = "route"
                THEN [IdleThread EXCEPT !.pc = "respond", !.via = "route",
                                        !.ret = kind, !.handle = rec.handle]
                ELSE [IdleThread EXCEPT !.handle = rec.handle]]

\* ------------------------------------------- NoiseReductionService.__new__
\* "if cls._instance is None": the first step of a constructor call.
NewCheck(t, a) ==
    /\ th[t].pc = "idle"
    /\ nCalls < MaxCalls
    /\ nCalls' = nCalls + 1
    /\ Start(t, [Begin(t, "init", "direct") EXCEPT
                 !.pc = IF cls_instance = 0 THEN "new_create" ELSE "new_return",
                 !.model_path = a[1], !.sample_rate = a[2]])
    /\ UNCHANGED <<cls_instance, objs, nInst, loadCount, initDone, fs, lstm>>

\* "cls._instance = super().__new__(cls)"
NewCreate(t) ==
    /\ th[t].pc = "new_create"
    /\ nInst' = nInst + 1
    /\ objs' = [objs EXCEPT ![nInst + 1] = FreshObj]
    /\ cls_instance' = nInst + 1
    /\ Set(t, [th[t] EXCEPT !.pc = "new_setflag"])
    /\ UNCHANGED <<nCalls, loadCount, initDone, fs, lstm>>

\* "cls._instance._initialized = False": cls._instance is read again here.
NewSetFlag(t) ==
    /\ th[t].pc = "new_setflag"
    /\ objs' = [objs EXCEPT ![cls_instance].has_initialized = TRUE,
                            ![cls_instance].initialized = FALSE]
    /\ Set(t, [th[t] EXCEPT !.pc = "new_return"])
    /\ UNCHANGED <<cls_instance, nInst, nCalls, loadCount, initDone, fs, lstm>>

\* "return cls._instance": the object __init__ will receive as self.
NewReturn(t) ==
    /\ th[t].pc = "new_return"
    /\ Set(t, [th[t] EXCEPT !.pc = "init_check", !.this = cls_instance])
    /\ UNCHANGED <<cls_instance, objs, nInst, nCalls, loadCount, initDone, fs, lstm>>

\* ------------------------------------------ NoiseReductionService.__init__
\* "if self._initialized: return".  Reading the attribute of an object whose
\* __new__ has not yet set it raises AttributeError.
InitCheckNoGuard(t) ==
    /\ th[t].pc = "init_check"
    /\ Set(t, [th[t] EXCEPT !.pc = "init_fields"])
    /\ UNCHANGED <<cls_instance, objs, nInst, nCalls, loadCount, initDone, fs, lstm>>

InitCheck(t) ==
    /\ th[t].pc = "init_check"
    /\ LET o == objs[th[t].this] IN
       IF ~o.has_initialized THEN Finish(t, "AttributeError", th[t])
       ELSE IF o.initialized
            THEN Finish(t, "ok", [th[t] EXCEPT !.handle = th[t].this])
            ELSE Set(t, [th[t] EXCEPT !.pc = "init_fields"])
    /\ UNCHANGED <<cls_instance, objs, nInst, nCalls, loadCount, initDone, fs, lstm>>

\* self.model_path, self.sample_rate, self.model = None, self.dtln = None
InitFields(t) ==
    /\ th[t].pc = "init_fields"
    /\ objs' = [objs EXCEPT ![th[t].this] =
                  [@ EXCEPT !.has_fields = TRUE,
                            !.model_path = th[t].model_path,
                            !.sample_rate = th[t].sample_rate,
                            !.model = NoneModel, !.dtln = FALSE]]
    /\ Set(t, [th[t] EXCEPT !.pc = "load"])
    /\ UNCHANGED <<cls_instance, nInst, nCalls, loadCount, initDone, fs, lstm>>

\* self._load_model(): raises FileNotFoundError when the weights file is
\* missing; otherwise builds the network (self.dtln) and loads the weights,
\* and load_weights raises on weights that do not fit, before self.model is
\* set.
LoadedModel(n, path) == [id |-> n, norm |-> NormStft(path)]

LoadModel(t) ==
    /\ th[t].pc = "load"
    /\ LET me == th[t].this
           path == objs[me].model_path
       IN  IF ~Exists(path)
           THEN /\ Finish(t, "FileNotFoundError", th[t])
                /\ UNCHANGED <<objs, loadCount>>
           ELSE IF fs[path].kind # "weights"
           THEN /\ objs' = [objs EXCEPT ![me].dtln = TRUE]
                /\ Finish(t, "ValueError", th[t])
                /\ UNCHANGED loadCount
           ELSE /\ loadCount' = loadCount + 1
                /\ objs' = [objs EXCEPT ![me].dtln = TRUE,
                                        ![me].model = LoadedModel(loadCount + 1, path)]
                /\ Set(t, [th[t] EXCEPT !.pc = "set_initialized"])
    /\ UNCHANGED <<cls_instance, nInst, nCalls, initDone, fs, lstm>>

\* "self._initialized = True", and the constructor returns self.
SetInitialized(t) ==
    /\ th[t].pc = "set_initialized"
    /\ objs' = [objs EXCEPT ![th[t].this].initialized = TRUE,
                            ![th[t].this].has_initialized = TRUE]
    /\ initDone' = TRUE
    /\ Finish(t, "ok", [th[t] EXCEPT !.handle = th[t].this])
    /\ UNCHANGED <<cls_instance, nInst, nCalls, loadCount, fs, lstm>>

\* ---------------------------------------------------------------- observers
\* is_ready(): "return self.model is not None"
is_ready(o) == o.model.id # 0

IsReady(t) ==
    /\ th[t].pc = "idle"
    /\ th[t].handle # 0
    /\ last' = [Result(t, "ok", Begin(t, "is_ready", "direct")) EXCEPT
                  !.ready = is_ready(objs[th[t].handle])]
    /\ UNCHANGED <<cls_instance, objs, nInst, nCalls, loadCount, initDone, fs, lstm, th>>

\* get_info()
get_info(o) ==
    IF ~is_ready(o)
    THEN [status |-> "not_ready", model_path |-> "", sample_rate |-> 0]
    ELSE [status |-> "ready", model_path |-> o.model_path,
          sample_rate |-> o.sample_rate]

GetInfo(t) ==
    /\ th[t].pc = "idle"
    /\ th[t].handle # 0
    /\ last' = [Result(t, "ok", Begin(t, "get_info", "direct")) EXCEPT
                  !.info = get_info(objs[th[t].handle])]
    /\ UNCHANGED <<cls_instance, objs, nInst, nCalls, loadCount, initDone, fs, lstm, th>>

\* ------------------------------- NoiseReductionService.process_audio_data
\* LSTM(..., stateful=stateful) with the default of seperation_kernel: the
\* recurrent layers keep no state between calls.
StatefulLayers == TRUE
Stateful == FALSE

\* Where a predict call of thread t keeps the hidden state: in the call's own
\* tensors, or (stateful layers) in the one variable the layer owns.
Slot(t) == IF Stateful THEN 0 ELSE t

\* Lines 158-169: the isinstance check, astype('float32'), the mono block and
\* the batch dimension.  The sample domain holds float32 values only, so the
\* cast changes none of them.
Prepare(a) == ExpandDims(EnsureMono(a))

\* Entry of process_audio_data(audio) up to the call of self.model.predict.
EnterData(t, rec, a) ==
    IF ~a.isArray
    THEN Finish(t, "ValueError", rec)
    ELSE Start(t, [rec EXCEPT !.pc = "predict", !.fed = Prepare(a)])

StartData(t, a) ==
    /\ th[t].pc = "idle"
    /\ th[t].handle # 0
    /\ EnterData(t, [Begin(t, "data", "direct") EXCEPT !.audio = a], a)
    /\ UNCHANGED <<cls_instance, objs, nInst, nCalls, loadCount, initDone, fs, lstm>>

\* self.model.predict(audio_batch): None has no predict (AttributeError);
\* otherwise the waveform is framed and the recurrent layers start the call
\* from the zero state unless they are stateful.
PredictBegin(t) ==
    /\ th[t].pc = "predict"
    /\ IF objs[th[t].handle].model.id = 0
       THEN /\ Finish(t, "AttributeError", th[t])
            /\ UNCHANGED lstm
       ELSE /\ Set(t, [th[t] EXCEPT !.pc = "frames", !.ran = TRUE, !.k = 0,
                                    !.frames = Frame(th[t].fed[1]), !.dec = <<>>])
            /\ lstm' = IF Stateful THEN lstm ELSE [lstm EXCEPT ![Slot(t)] = 0]
    /\ UNCHANGED <<cls_instance, objs, nInst, nCalls, loadCount, initDone, fs>>

\* One time step of the network: the next block through the separation
\* kernels, encoder and decoder.
PredictFrame(t) ==
    /\ th[t].pc = "frames"
    /\ th[t].k < Len(th[t].frames)
    /\ LET f == th[t].frames[th[t].k + 1]
           h == LSTMStep(lstm[Slot(t)], Feature(f))
       IN  /\ lstm' = [lstm EXCEPT ![Slot(t)] = h]
           /\ Set(t, [th[t] EXCEPT !.k = @ + 1, !.dec = Append(@, Decode(f, h))])
    /\ UNCHANGED <<cls_instance, objs, nInst, nCalls, loadCount, initDone, fs>>

\* Lines 176-182: squeeze, clip and return of process_audio_data.
Denoised(dec) == Clip(Squeeze(<<OverlapAdd(dec)>>))

\* The overlap-add layer ends predict (of no block at all it yields
\* blockLen - block_shift zeros); process_audio_data returns the clipped
\* samples, to its caller or to process_audio.
PredictEnd(t) ==
    /\ th[t].pc = "frames"
    /\ th[t].k = Len(th[t].frames)
    /\ LET d == Denoised(th[t].dec) IN
       IF th[t].op = "data"
       THEN Finish(t, "ok", [th[t] EXCEPT !.out = d])
       ELSE Set(t, [th[t] EXCEPT !.pc = "write", !.out = d,
                                 !.frames = <<>>, !.dec = <<>>, !.k = 0])
    /\ UNCHANGED <<cls_instance, objs, nInst, nCalls, loadCount, initDone, fs, lstm>>

\* ------------------------------------ NoiseReductionService.process_audio
\* Lines 109-131: the existence check, sf.read (which raises on a file that is
\* no audio container), the sample-rate warning, the mono block, and the call
\* of process_audio_data.
EnterFileNoExistsCheck(t, rec, f) ==
    IF f.kind # "audio" THEN Finish(t, "RuntimeError", rec)
    ELSE EnterData(t, [rec EXCEPT !.audio = f.audio], EnsureMono(f.audio))

EnterFile(t, rec, f) ==
    IF f.kind = "absent" THEN Finish(t, "FileNotFoundError", rec)
    ELSE IF f.kind # "audio" THEN Finish(t, "RuntimeError", rec)
    ELSE EnterData(t, [rec EXCEPT !.audio = f.audio], EnsureMono(f.audio))

StartFile(t, ip, op) ==
    /\ th[t].pc = "idle"
    /\ th[t].handle # 0
    /\ EnterFile(t, [Begin(t, "file", "direct") EXCEPT
                       !.input_path = ip, !.output_path = op,
                       !.in_kind = fs[ip].kind, !.before = fs[op]],
                 fs[ip])
    /\ UNCHANGED <<cls_instance, objs, nInst, nCalls, loadCount, initDone, fs, lstm>>

\* sf.write(output_path, denoised_audio, self.sample_rate): the file is
\* written whole, or the write fails before the file is created, or it fails
\* after part of the file is on disk.  process_audio re-raises (lines 139-141).
WriteFile(t) ==
    /\ th[t].pc = "write"
    /\ LET op == th[t].output_path
           whole == AudioFile(Array1(th[t].out), objs[th[t].handle].sample_rate)
       IN  \/ /\ fs' = [fs EXCEPT ![op] = whole]
              /\ Finish(t, "ok", th[t])
           \/ /\ \E left \in {fs[op], PartialFile} : fs' = [fs EXCEPT ![op] = left]
              /\ Finish(t, "RuntimeError", th[t])
    /\ UNCHANGED <<cls_instance, objs, nInst, nCalls, loadCount, initDone, lstm>>

\* ------------------------------------------------ routes.denoise_audio
\* Lines 104-113: the upload is saved as the input file and process_audio is
\* called on it.
RouteInput == "in.wav"
RouteOutput == "out.wav"

DenoiseRequest(t, upload) ==
    /\ th[t].pc = "idle"
    /\ th[t].handle # 0
    /\ fs' = [fs EXCEPT ![RouteInput] = upload]
    /\ EnterFile(t, [Begin(t, "file", "route") EXCEPT
                       !.input_path = RouteInput, !.output_path = RouteOutput,
                       !.in_kind = upload.kind, !.before = fs[RouteOutput]],
                 upload)
    /\ UNCHANGED <<cls_instance, objs, nInst, nCalls, loadCount, initDone, lstm>>

\* input_path.unlink() and output_path.unlink(), each if the file exists.
Unlinked == [fs EXCEPT ![RouteInput] = AbsentFile, ![RouteOutput] = AbsentFile]

\* Lines 115-169: on success the file is sent and both files are removed when
\* the response closes; the FileNotFoundError and ValueError handlers remove
\* nothing; the handler of every other exception removes both files.
DenoiseRespond(t) ==
    /\ th[t].pc = "respond"
    /\ fs' = IF th[t].ret \in {"FileNotFoundError", "ValueError"} THEN fs ELSE Unlinked
    /\ Set(t, [IdleThread EXCEPT !.handle = th[t].handle])
    /\ UNCHANGED <<cls_instance, objs, nInst, nCalls, loadCount, initDone, lstm>>

\* ------------------------------------------------------------------ inputs
Wave(n, pat) ==
    [i \in 1..n |-> CASE pat = 1 -> ((i % 3) - 1) * One
                      [] pat = 2 -> One
                      [] OTHER -> 0 - One]

\* n samples of ch channels each.
Multi(n, ch) == Array2([i \in 1..n |-> [c \in 1..ch |-> Wave(n, c)[i]]])

Lens ==
    {0, 1, blockLen - 1}
    \cup { blockLen + k * block_shift + d :
             k \in 0..MaxExtraHops, d \in {0, 1, block_shift - 1} }

MonoInputs == { Array1(Wave(n, pat)) : n \in Lens, pat \in {1, 2} }

NonFiniteInputs ==
    { Array1([Wave(n, 1) EXCEPT ![n] = NaN]) : n \in Lens \ {0} }
    \cup { Array1([Wave(n, 2) EXCEPT ![1] = Inf]) : n \in Lens \ {0} }

MultiInputs ==
    { Multi(n, ch) : n \in {1, blockLen, blockLen + block_shift + 1}, ch \in 1..MaxCh }

ProcInputs == MonoInputs \cup NonFiniteInputs \cup MultiInputs \cup {NotAnArray}

\* Inputs of the concurrent calls: two and three blocks.
ConcInputs ==
    { Array1(Wave(blockLen + block_shift, 1)),
      Array1(Wave(blockLen + 2 * block_shift, 2)) }

LifeInputs == { Array1(Wave(blockLen, 2)) }

FileArgs ==
    { <<"in.wav", "out.wav">>, <<"stereo.wav", "out.wav">>,
      <<"none.wav", "out.wav">>, <<"out.wav", "out.wav">> }

Uploads == { AudioFile(Array1(Wave(blockLen, 1)), SAMPLE_RATE), PartialFile }

\* ------------------------------------------------------------ initial state
FS0 ==
    [p \in Paths |->
        CASE p \in {"DTLN.h5", "DTLN_norm_.h5"} -> WeightsFile
          [] p = "corrupt.h5" -> BadWeightsFile
          [] p = "in.wav" -> AudioFile(Array1(Wave(blockLen + block_shift, 1)), SAMPLE_RATE)
          [] p = "stereo.wav" -> AudioFile(Multi(blockLen + 1, 2), SAMPLE_RATE \div 2)
          [] OTHER -> AbsentFile]

\* Before any constructor call.
Init ==
    /\ cls_instance = 0
    /\ objs = [i \in 1..MaxCalls |-> FreshObj]
    /\ nInst = 0
    /\ nCalls = 0
    /\ loadCount = 0
    /\ initDone = FALSE
    /\ fs = FS0
    /\ lstm = [s \in 0..NumThreads |-> 0]
    /\ th = [t \in Threads |-> IdleThread]
    /\ last = NoCall

\* After app.create_app: the service was constructed once, from the configured
\* weights, and routes.init_api handed every request thread the handle.
ReadyObj ==
    [has_initialized |-> TRUE, initialized |-> TRUE, has_fields |-> TRUE,
     model_path |-> "DTLN.h5", sample_rate |-> SAMPLE_RATE,
     model |-> LoadedModel(1, "DTLN.h5"), dtln |-> TRUE]

InitReady ==
    /\ cls_instance = 1
    /\ objs = [i \in 1..MaxCalls |-> IF i = 1 THEN ReadyObj ELSE FreshObj]
    /\ nInst = 1
    /\ nCalls = 1
    /\ loadCount = 1
    /\ initDone = TRUE
    /\ fs = FS0
    /\ lstm = [s \in 0..NumThreads |-> 0]
    /\ th = [t \in Threads |-> [IdleThread EXCEPT !.handle = 1]]
    /\ last = NoCall

\* ------------------------------------------------------------ specifications
\* Threads constructing the service, observing it and processing buffers in any
\* interleaving.
Next ==
    \E t \in Threads :
        \/ \E a \in CtorArgs : NewCheck(t, a)
        \/ NewCreate(t)
        \/ NewSetFlag(t)
        \/ NewReturn(t)
        \/ InitCheck(t)
        \/ InitFields(t)
        \/ LoadModel(t)
        \/ SetInitialized(t)
        \/ IsReady(t)
        \/ GetInfo(t)
        \/ \E a \in LifeInputs : StartData(t, a)
        \/ PredictBegin(t)
        \/ PredictFrame(t)
        \/ PredictEnd(t)

Spec == Init /\ [][Next]_vars

\* The same calls made one after the other: a call starts only when no other
\* call is in progress.
NoOtherCall(t) == \A u \in Threads \ {t} : th[u].pc = "idle"

NextSeq ==
    \E t \in Threads :
        /\ NoOtherCall(t)
        /\ \/ \E a \in CtorArgs : NewCheck(t, a)
           \/ NewCreate(t)
           \/ NewSetFlag(t)
           \/ NewReturn(t)
           \/ InitCheck(t)
           \/ InitFields(t)
           \/ LoadModel(t)
           \/ SetInitialized(t)
           \/ IsReady(t)
           \/ GetInfo(t)
           \/ \E a \in LifeInputs : StartData(t, a)
           \/ PredictBegin(t)
           \/ PredictFrame(t)
           \/ PredictEnd(t)
           \/ StartFile(t, "in.wav", "out.wav")
           \/ WriteFile(t)

SpecSeq == Init /\ [][NextSeq]_vars

\* One request thread using the constructed service on buffers and files.
NextProc ==
    \/ \E a \in ProcInputs : StartData(1, a)
    \/ PredictBegin(1)
    \/ PredictFrame(1)
    \/ PredictEnd(1)
    \/ \E a \in FileArgs : StartFile(1, a[1], a[2])
    \/ WriteFile(1)
    \/ \E u \in Uploads : DenoiseRequest(1, u)
    \/ DenoiseRespond(1)

SpecProc == InitReady /\ [][NextProc]_vars

\* Request threads calling process_audio_data on the one model concurrently.
NextConc ==
    \E t \in Threads :
        \/ \E a \in ConcInputs : StartData(t, a)
        \/ PredictBegin(t)
        \/ PredictFrame(t)
        \/ PredictEnd(t)

SpecConc == InitReady /\ [][NextConc]_vars

\* ====================================================================== claims
Samples(t) == th[t].fed[1]

\* C1 (SpecSeq): a constructor call made, with no other call in progress, on a
\* service that is already initialized returns normally, returns the handle
\* every earlier call returned, and reads no weights file: the load count is
\* what it was when the call began, which is 1.
C1_SingletonLaw ==
    (last.op = "init" /\ last.late) =>
        /\ last.ret = "ok"
        /\ last.handle = cls_instance
        /\ \A u \in Threads : th[u].handle \in {0, last.handle}
        /\ loadCount = last.loads0
        /\ loadCount = 1

C1_Witness ==
    /\ last.op = "init" /\ last.late /\ last.ret = "ok"
    /\ \E u \in Threads \ {last.t} : th[u].handle = last.handle

\* C2 (Spec): under concurrent start-up the weights are loaded at most once in
\* total.
C2_LoadAtMostOnce == loadCount <= 1

\* C3 (SpecConc): the hidden state of the recurrent layers is local to each
\* process_audio_data call: while a call is running, its state is the state the
\* same input reaches when run alone from the zero state, whatever the other
\* calls do, and the samples it returns are those it returns when run alone.
C3_RequestLocalState ==
    /\ \A t \in Threads :
          th[t].pc = "frames" =>
              lstm[Slot(t)] = RunFrames(th[t].frames, th[t].k, 0).h
    /\ (last.op = "data" /\ last.ret = "ok") =>
          last.out = Clip(Predict(last.fed[1]))

C3_Witness ==
    /\ last.op = "data" /\ last.ret = "ok"
    /\ \E u \in Threads \ {last.t} :
          /\ th[u].pc = "frames"
          /\ th[u].k >= 1
          /\ th[u].k < Len(th[u].frames)
          /\ th[u].audio # last.audio

\* C4 (SpecProc): process_audio on an input path that does not exist raises
\* FileNotFoundError without running the model, and writes nothing at the
\* output path: the path holds what it held before the call, no file if it
\* held none.
C4_MissingInput ==
    (last.op = "file" /\ last.in_kind = "absent") =>
        /\ last.ret = "FileNotFoundError"
        /\ ~last.ran
        /\ fs[last.output_path] = last.before
        /\ (last.before.kind = "absent" => ~Exists(last.output_path))

C4_Witness ==
    /\ last.op = "file" /\ last.in_kind = "absent"
    /\ last.ret = "FileNotFoundError"
    /\ ~Exists(last.output_path)

\* C5 (SpecProc): after a failed process_audio call no partially written file
\* is at the output path.
C5_NoPartialOutput ==
    (last.op = "file" /\ last.ret # "ok") =>
        fs[last.output_path].kind # "partial"

\* C6 (SpecProc): every sample process_audio_data returns lies in [-1.0, 1.0].
C6_OutputInRange ==
    (last.op = "data" /\ last.ret = "ok") =>
        \A i \in 1..Len(last.out) : last.out[i] \in (0 - One)..One

\* C7 (SpecProc): process_audio_data raises ValueError (InvalidInput), without
\* running the model, when its input is empty or holds a NaN or Inf sample.
HasNonFinite(a) ==
    \E i \in 1..Len(a.data) :
        IF a.ndim = 1 THEN ~IsFinite(a.data[i])
        ELSE \E c \in 1..Len(a.data[i]) : ~IsFinite(a.data[i][c])

C7_InvalidInputRejected ==
    (last.op = "data" /\ last.audio.isArray
        /\ (Len(last.audio.data) = 0 \/ HasNonFinite(last.audio))) =>
        (last.ret = "ValueError" /\ ~last.ran)

\* C8 (SpecProc): for a waveform of N >= blockLen samples, framing yields
\* floor((N - blockLen) / block_shift) + 1 blocks of blockLen samples each, and
\* the overlap-add of the processed blocks, which is what process_audio_data
\* returns, has (blocks - 1) * block_shift + blockLen samples, at most N.
C8_ShapeLaw ==
    /\ \A t \in Threads :
          (th[t].pc = "frames" /\ Len(Samples(t)) >= blockLen) =>
              LET N == Len(Samples(t))
                  nf == ((N - blockLen) \div block_shift) + 1
              IN  /\ Len(th[t].frames) = nf
                  /\ \A j \in 1..Len(th[t].frames) : Len(th[t].frames[j]) = blockLen
                  /\ (th[t].k = Len(th[t].frames) =>
                        /\ Len(OverlapAdd(th[t].dec)) = (nf - 1) * block_shift + blockLen
                        /\ Len(OverlapAdd(th[t].dec)) <= N)
    /\ (last.op = "data" /\ last.ret = "ok" /\ Len(last.fed[1]) >= blockLen) =>
          LET N == Len(last.fed[1])
              nf == ((N - blockLen) \div block_shift) + 1
          IN  Len(last.out) = (nf - 1) * block_shift + blockLen /\ Len(last.out) <= N

C8_Witness ==
    \E t \in Threads :
        /\ th[t].pc = "frames"
        /\ Len(Samples(t)) = blockLen + 2 * block_shift - 1
        /\ th[t].k = Len(th[t].frames)
        /\ Len(th[t].frames) = 2

\* C9 (SpecProc): the waveform handed to the network by process_audio_data and
\* by process_audio is, sample by sample, the unweighted average of the input's
\* channels, and the input itself when it has one dimension.
RECURSIVE ChannelTotal(_, _)
ChannelTotal(row, c) == IF c = 0 THEN 0 ELSE ChannelTotal(row, c - 1) + row[c]

C9_MonoInvariant ==
    \A t \in Threads :
        th[t].pc = "predict" =>
            LET a == th[t].audio
                x == Samples(t)
            IN  /\ Len(th[t].fed) = 1
                /\ Len(x) = Len(a.data)
                /\ IF a.ndim = 1 THEN x = a.data
                   ELSE \A i \in 1..Len(x) :
                          x[i] * Len(a.data[i]) = ChannelTotal(a.data[i], Len(a.data[i]))

C9_Witness ==
    \E t \in Threads :
        /\ th[t].pc = "predict"
        /\ th[t].op = "file"
        /\ th[t].audio.ndim = 2
        /\ Len(th[t].audio.data) >= blockLen
        /\ Len(th[t].audio.data[1]) >= 2
        /\ th[t].audio.data[1][1] # th[t].audio.data[1][2]

\* C10 (Spec): once a constructor call has completed a load, no step of a call
\* that started afterwards (is_ready, get_info, process_audio_data or another
\* constructor call) changes the model, model_path or sample_rate of a service
\* object that holds a loaded model, and is_ready and get_info change nothing
\* at all.
Loaded(o) == [model |-> o.model, model_path |-> o.model_path,
              sample_rate |-> o.sample_rate]

StepOfLateCall(t) ==
    \/ th[t].late /\ th[t].pc # "idle" /\ th'[t] # th[t]
    \/ th[t].pc = "idle" /\ initDone /\ last' # last /\ last'.t = t
         /\ last'.op \in {"is_ready", "get_info"}

ObserverStep(t) ==
    th[t].pc = "idle" /\ last' # last /\ last'.t = t
        /\ last'.op \in {"is_ready", "get_info"}

C10_NoLaterMutation ==
    [][\A t \in Threads :
          /\ StepOfLateCall(t) =>
                \A i \in 1..MaxCalls :
                    is_ready(objs[i]) => Loaded(objs'[i]) = Loaded(objs[i])
          /\ ObserverStep(t) =>
                UNCHANGED <<cls_instance, objs, nInst, nCalls, loadCount, initDone,
                            fs, lstm, th>>]_vars

\* C11 (SpecProc): a waveform shorter than one block (N < blockLen) is framed
\* into no block at all, whatever N is: nothing is zero-padded, and the network
\* runs no time step on it.
C11_ShortInput ==
    \A t \in Threads :
        (th[t].pc = "frames" /\ Len(Samples(t)) < blockLen) =>
            /\ th[t].frames = <<>>
            /\ th[t].k = 0
            /\ th[t].dec = <<>>

C11_Witness ==
    \E t \in Threads :
        /\ th[t].pc = "frames"
        /\ Len(Samples(t)) = blockLen - 1
        /\ th[t].frames = <<>>

\* C12 (Spec): in every reachable state a service object marked initialized
\* holds a loaded model (is_ready is true); a constructor call that fails in
\* _load_model, on a missing weights file or a load error, leaves its object
\* not initialized and not ready, so that the next constructor call loads
\* again; and a constructor call that returns normally returns a handle with a
\* model.
C12_InitializedImpliesReady ==
    /\ \A i \in 1..MaxCalls : objs[i].initialized => is_ready(objs[i])
    /\ (last.op = "init" /\ last.ret \in {"FileNotFoundError", "ValueError"}) =>
          (~objs[last.this].initialized /\ ~is_ready(objs[last.this]))
    /\ (last.op = "init" /\ last.ret = "ok") => is_ready(objs[last.handle])

====
